---- MODULE Spec2Model ----
(***************************************************************************)
(* Model of utils/rfi_analysis.py: get_rfi_matrix and calculate_dormancy.  *)
(*                                                                         *)
(* One behaviour is one call of calculate_dormancy(df, user_id), which     *)
(* itself calls get_rfi_matrix(df, user_id); "activity" is the row of the  *)
(* data frame the call reads.  Python indices are kept 0-based: At(s, i)   *)
(* is s[i].  A float is a pair <<n, d>> standing for n/d; <<0, 0>> is nan  *)
(* (numpy's 0/0).  Relevance, which polars rounds to two decimals, is kept *)
(* in hundredths.                                                          *)
(***************************************************************************)
EXTENDS Integers, Sequences, FiniteSets, TLC

\* Bounds of the explored inputs.
MaxLen == 9       \* every binary sequence of length 0..MaxLen
MaxEdge == 3      \* long inputs: edge ++ LongPad active days ++ edge
LongPad == 88
MaxUsers == 2    \* users of a batch matrix
MaxWidth == 3    \* days of a narrow batch matrix
MaxTail == 2     \* days of a wide batch matrix past first_period_duration - 1

\* Python's None (ongoing_episode, features and tables not yet assigned).
None == <<>>

At(s, i) == s[i + 1]

Min(a, b) == IF a < b THEN a ELSE b

Rep(v, n) == [i \in 1..n |-> v]

BinSeqs(lo, hi) == UNION {[1..n -> {0, 1}] : n \in lo..hi}

ShortSeqs == BinSeqs(0, MaxLen)

LongSeqs ==
  {pre \o Rep(1, LongPad) \o suf :
     pre \in BinSeqs(1, MaxEdge), suf \in BinSeqs(1, MaxEdge)}

Inputs == ShortSeqs \cup LongSeqs

\* The sum of f[lo..hi], by halves.
RECURSIVE SumFn(_, _, _)
SumFn(f, lo, hi) ==
  IF lo > hi THEN 0
  ELSE IF lo = hi THEN f[lo]
  ELSE LET mid == (lo + hi) \div 2
       IN  SumFn(f, lo, mid) + SumFn(f, mid + 1, hi)

SumSeq(s) == SumFn(s, 1, Len(s))

(***************************************************************************)
(* Lines 7-13: the row, the reference day and the observation window.      *)
(* df.row() gives a tuple and the slice of a tuple is a tuple; only        *)
(* np.append (reference day inactive) turns the window into an ndarray.    *)
(***************************************************************************)
ReferenceDay(act) == act[Len(act)]

ObservationDays(act) ==
  LET prefix == SubSeq(act, 1, Len(act) - 1)
  IN  IF ReferenceDay(act) = 0 THEN Append(prefix, 0) ELSE prefix

IsNdarray(act) == ReferenceDay(act) = 0

(***************************************************************************)
(* Lines 15-25: the segmentation scan.  RunEnd is the inner while loop,    *)
(* which leaves i just past the run of zeros that starts at i; an episode  *)
(* is <<start, duration>>.                                                 *)
(***************************************************************************)
\* An inner loop that stops after the first inactive day.
RunEndOneDay(obs, i) == i + 1

RECURSIVE RunEnd(_, _)
RunEnd(obs, i) ==
  IF i < Len(obs) /\ At(obs, i) = 0 THEN RunEnd(obs, i + 1) ELSE i

(***************************************************************************)
(* Lines 28-35: the last scanned episode is the ongoing one when the       *)
(* reference day is inactive and the episode reaches the end of the window.*)
(***************************************************************************)
LastEnd(eps) == eps[Len(eps)][1] + eps[Len(eps)][2] - 1

\* The test without its reference-day conjunct.
IsOngoingLastNoRef(eps, obs, ref) ==
  /\ eps # <<>>
  /\ LastEnd(eps) = Len(obs) - 1

IsOngoingLast(eps, obs, ref) ==
  /\ eps # <<>>
  /\ ref = 0
  /\ LastEnd(eps) = Len(obs) - 1

OngoingOf(eps, obs, ref) ==
  IF IsOngoingLast(eps, obs, ref) THEN eps[Len(eps)] ELSE None

PreviousOf(eps, obs, ref) ==
  IF IsOngoingLast(eps, obs, ref) THEN SubSeq(eps, 1, Len(eps) - 1) ELSE eps

(***************************************************************************)
(* Lines 37-48: rfi_data, a dict keyed by duration.  It is kept as the     *)
(* sequence of its entries [I, F, R] in insertion order, which is the      *)
(* order a Python dict iterates in.                                        *)
(***************************************************************************)
\* A recency counted from the day after the episode.
RecencyFromNextDay(ep, obs, ref) ==
  Len(obs) - (ep[1] + ep[2]) - (IF ref = 0 THEN 1 ELSE 0)

Recency(ep, obs, ref) ==
  Len(obs) - (ep[1] + ep[2] - 1) - (IF ref = 0 THEN 1 ELSE 0)

HasKey(data, dur) == \E k \in 1..Len(data) : data[k].I = dur

\* An update that keeps the recency of the first episode of the group.
UpsertKeepFirst(data, dur, rec) ==
  IF HasKey(data, dur)
  THEN [k \in 1..Len(data) |->
          IF data[k].I = dur
          THEN [I |-> dur, F |-> data[k].F + 1, R |-> data[k].R]
          ELSE data[k]]
  ELSE Append(data, [I |-> dur, F |-> 1, R |-> rec])

Upsert(data, dur, rec) ==
  IF HasKey(data, dur)
  THEN [k \in 1..Len(data) |->
          IF data[k].I = dur
          THEN [I |-> dur, F |-> data[k].F + 1, R |-> Min(data[k].R, rec)]
          ELSE data[k]]
  ELSE Append(data, [I |-> dur, F |-> 1, R |-> rec])

RECURSIVE AggregateFrom(_, _, _, _, _)
AggregateFrom(eps, k, obs, ref, data) ==
  IF k > Len(eps) THEN data
  ELSE AggregateFrom(eps, k + 1, obs, ref,
                     Upsert(data, eps[k][2], Recency(eps[k], obs, ref)))

Aggregate(eps, obs, ref) == AggregateFrom(eps, 1, obs, ref, <<>>)

(***************************************************************************)
(* Lines 50-60: the rows of the table; the ongoing episode is appended as  *)
(* a row of its own.                                                       *)
(***************************************************************************)
\* Rows in which the ongoing episode is folded into rfi_data.
PrepareRowsMerged(data, ongoing) ==
  IF ongoing # None THEN Upsert(data, ongoing[2], 0) ELSE data

PrepareRows(data, ongoing) ==
  IF ongoing # None
  THEN Append(data, [I |-> ongoing[2], F |-> 1, R |-> 0])
  ELSE data

(***************************************************************************)
(* Lines 66-68 and 86-89: activity_ratio.  The empty window gives the int  *)
(* 0 of the conditional expression.                                        *)
(***************************************************************************)
\* A ratio taken over the whole row, reference day included.
ActivityRatioWholeRow(obs) ==
  IF Len(obs) # 0 THEN <<SumSeq(obs), Len(obs) + 1>> ELSE <<0, 1>>

ActivityRatio(obs) ==
  IF Len(obs) # 0 THEN <<SumSeq(obs), Len(obs)>> ELSE <<0, 1>>

Zero == <<0, 1>>

\* The tuple of the empty-table branch with the growth-rate default left in.
EmptyFeaturesGrowthOne(obs) ==
  <<ActivityRatio(obs), Zero, Zero, Zero, Zero, Zero, Zero, Zero, Zero,
    <<1, 1>>, Zero>>

\* Lines 70-82.
EmptyFeatures(obs) ==
  <<ActivityRatio(obs), Zero, Zero, Zero, Zero, Zero, Zero, Zero, Zero,
    Zero, Zero>>

(***************************************************************************)
(* Lines 97-104: Relevance = round(I * F * exp(-k * sqrt(R + 1)) *         *)
(* [R < 90] * [R != 0], 2) with k = 1/30.  ExpDecay[R] is the double       *)
(* np.exp(-k * np.sqrt(R + 1)) to sixteen decimals, as <<hi, lo>> with     *)
(* hi the first eight and lo the next eight, for the recencies 1..89 the   *)
(* two indicators let through.  The product is taken on four limbs of four *)
(* digits so that it stays inside 32 bits.  For I * F up to 20000 the      *)
(* product in doubles is never within 10^-7 hundredths of a half, so the   *)
(* sixteen decimals decide the rounding as the doubles do, whatever the    *)
(* rule for ties.                                                          *)
(***************************************************************************)
RecencyCutoff == 90

ExpDecay ==
  <<
    <<95395340, 34418321>>, <<94390002, 24008953>>, <<93550698, 50316177>>,
    <<92817443, 11572237>>, <<92159477, 54162442>>, <<91558533, 26952412>>,
    <<91002709, 59382548>>, <<90483741, 80359595>>, <<89995613, 53559754>>,
    <<89533783, 76668793>>, <<89094725, 22884107>>, <<88675633, 39119950>>,
    <<88274234, 77216264>>, <<87888656, 4367659>>, <<87517331, 90429474>>,
    <<87158938, 54796351>>, <<86812344, 53945848>>, <<86476573, 83454681>>,
    <<86150777, 46540358>>, <<85834211, 53189525>>, <<85526219, 86291916>>,
    <<85226220, 19099980>>, <<84933693, 745177>>, <<84648172, 48906141>>,
    <<84369239, 4431415>>, <<84096513, 13930470>>, <<83829650, 14466554>>,
    <<83568336, 445501>>, <<83312283, 57224403>>, <<83061229, 49293991>>,
    <<82814931, 53418136>>, <<82573166, 29054507>>, <<82335727, 19882659>>,
    <<82102422, 81438837>>, <<81873075, 30779818>>, <<81647519, 14830072>>,
    <<81425599, 94650887>>, <<81207173, 43339812>>, <<80992104, 55648626>>,
    <<80780266, 67717050>>, <<80571540, 85572213>>, <<80365815, 21251725>>,
    <<80162984, 35580031>>, <<79962948, 86770354>>, <<79765614, 84143525>>,
    <<79570893, 46354686>>, <<79378700, 63602689>>, <<79188956, 63367816>>,
    <<79001585, 79283462>>, <<78816516, 22798476>>, <<78633679, 57330417>>,
    <<78453010, 74647299>>, <<78274447, 73247475>>, <<78097931, 38534897>>,
    <<77923405, 24610887>>, <<77750815, 37524223>>, <<77580110, 19839324>>,
    <<77411240, 36397973>>, <<77244158, 61163689>>, <<77078819, 65049842>>,
    <<76915180, 4643080>>, <<76753198, 11742927>>, <<76592833, 83646486>>,
    <<76434048, 74114433>>, <<76276805, 84960812>>, <<76121069, 58214811>>,
    <<75966805, 68807681>>, <<75813981, 17742454>>, <<75662564, 25708086>>,
    <<75512524, 27103177>>, <<75363831, 64437647>>, <<75216457, 83083557>>,
    <<75070375, 26348835>>, <<74925557, 30849975>>, <<74781978, 22161826>>,
    <<74639613, 10724470>>, <<74498437, 87988874>>, <<74358429, 22784503>>,
    <<74219564, 57893490>>, <<74081822, 6817178>>, <<73945180, 50722018>>,
    <<73809619, 35552797>>, <<73675118, 69302140>>, <<73541659, 19426084>>,
    <<73409222, 10396267>>, <<73277789, 21380038>>, <<73147342, 84040388>>,
    <<73017865, 80448254>>, <<72889341, 41100246>>
  >>

\* n/d rounded to the nearest integer, ties to even (n >= 0, d > 0).
RoundHalfEven(n, d) ==
  LET q == n \div d
      r == n % d
  IN  IF 2 * r > d \/ (2 * r = d /\ q % 2 = 1) THEN q + 1 ELSE q

\* round(m * e, 2) in hundredths, e = <<hi, lo>> in units of 10^-8 and 10^-16.
DecayedBy(m, e) ==
  LET d4 == m * (e[2] % 10000)
      d3 == m * (e[2] \div 10000) + (d4 \div 10000)
      d2 == m * (e[1] % 10000) + (d3 \div 10000)
      d1 == m * (e[1] \div 10000) + (d2 \div 10000)
      below == (d2 % 10000) + (d3 % 10000) + (d4 % 10000)
      q == d1 \div 100
      t == d1 % 100
  IN  IF t > 50 \/ (t = 50 /\ below > 0) \/ (t = 50 /\ q % 2 = 1)
      THEN q + 1
      ELSE q

Decayed(m, R) == DecayedBy(m, ExpDecay[R])

\* A relevance without the [R != 0] indicator (exp(-1/30) at R = 0).
RelevanceNoZeroCut(row) ==
  IF row.R >= RecencyCutoff THEN 0
  ELSE IF row.R = 0 THEN DecayedBy(row.I * row.F, <<96721610, 4820059>>)
  ELSE Decayed(row.I * row.F, row.R)

Relevance(row) ==
  IF row.R < RecencyCutoff /\ row.R # 0
  THEN Decayed(row.I * row.F, row.R)
  ELSE 0

WithRelevance(rows) ==
  [k \in 1..Len(rows) |->
     [R |-> rows[k].R, F |-> rows[k].F, I |-> rows[k].I,
      Relevance |-> Relevance(rows[k])]]

(***************************************************************************)
(* Lines 90-93 and 106-107: the statistics of the table columns.           *)
(***************************************************************************)
SumCol(rows, col) ==
  SumFn([k \in 1..Len(rows) |-> rows[k][col]], 1, Len(rows))

MinCol(rows, col) ==
  CHOOSE v \in {rows[k][col] : k \in 1..Len(rows)} :
    \A k \in 1..Len(rows) : v <= rows[k][col]

MaxCol(rows, col) ==
  CHOOSE v \in {rows[k][col] : k \in 1..Len(rows)} :
    \A k \in 1..Len(rows) : v >= rows[k][col]

NumEpisodes(rows) == SumCol(rows, "F")

AvgRecency(rows) ==
  IF NumEpisodes(rows) # 0 THEN <<SumCol(rows, "R"), Len(rows)>> ELSE Zero

MinRecency(rows) ==
  IF NumEpisodes(rows) # 0 THEN <<MinCol(rows, "R"), 1>> ELSE Zero

AvgRelevance(df) ==
  IF NumEpisodes(df) # 0
  THEN <<SumCol(df, "Relevance"), 100 * Len(df)>> ELSE Zero

MaxRelevance(df) ==
  IF NumEpisodes(df) # 0 THEN <<MaxCol(df, "Relevance"), 100>> ELSE Zero

(***************************************************************************)
(* Lines 109-120: activity_periodicity_score.  AutoCorr(obs, lag) is the   *)
(* entry of np.correlate(obs, obs, 'full') at the non-negative lag; the    *)
(* division by a zero maximum is numpy's 0/0, nan.                         *)
(***************************************************************************)
PeriodicityMinLen == 7

PeriodicityLags == 29

AutoCorr(obs, lag) ==
  LET last == Len(obs) - 1 - lag
  IN  SumFn([i \in 0..last |-> At(obs, i) * At(obs, i + lag)], 0, last)

SumLags(obs, first, last) ==
  SumFn([lag \in first..last |-> AutoCorr(obs, lag)], first, last)

MaxAutoCorr(obs) ==
  LET vals == {AutoCorr(obs, lag) : lag \in 0..(Len(obs) - 1)}
  IN  CHOOSE v \in vals : \A w \in vals : v >= w

\* A score whose length test lets a window of exactly 7 days through.
PeriodicityScoreFrom7(obs) ==
  IF Len(obs) >= PeriodicityMinLen
  THEN LET m == Min(PeriodicityLags, Len(obs) - 1)
           mx == MaxAutoCorr(obs)
       IN  IF mx = 0 THEN <<0, 0>> ELSE <<SumLags(obs, 1, m), mx * m>>
  ELSE Zero

PeriodicityScore(obs) ==
  IF Len(obs) > PeriodicityMinLen
  THEN LET m == Min(PeriodicityLags, Len(obs) - 1)
           mx == MaxAutoCorr(obs)
       IN  IF mx = 0 THEN <<0, 0>> ELSE <<SumLags(obs, 1, m), mx * m>>
  ELSE Zero

(***************************************************************************)
(* Lines 122-138: inactivity_linearity, the squared r of                   *)
(* stats.linregress(R, I) over the individual non-ongoing episodes.  With  *)
(* Sxx = n*sum(x^2) - sum(x)^2 (likewise Syy, Sxy), r^2 = Sxy^2/(Sxx*Syy), *)
(* and r = 0 when a variance is zero.                                      *)
(***************************************************************************)
SumSq(s) == SumFn([k \in 1..Len(s) |-> s[k] * s[k]], 1, Len(s))

Dot(s, t) == SumFn([k \in 1..Len(s) |-> s[k] * t[k]], 1, Len(s))

IndividualR(eps, obs, ref) ==
  [k \in 1..Len(eps) |-> Recency(eps[k], obs, ref)]

IndividualI(eps) == [k \in 1..Len(eps) |-> eps[k][2]]

Linearity(eps, obs, ref) ==
  IF Len(eps) > 1
  THEN LET n == Len(eps)
           xs == IndividualR(eps, obs, ref)
           ys == IndividualI(eps)
           sxx == n * SumSq(xs) - SumSeq(xs) * SumSeq(xs)
           syy == n * SumSq(ys) - SumSeq(ys) * SumSeq(ys)
           sxy == n * Dot(xs, ys) - SumSeq(xs) * SumSeq(ys)
       IN  IF sxx = 0 \/ syy = 0 THEN Zero ELSE <<sxy * sxy, sxx * syy>>
  ELSE Zero

(***************************************************************************)
(* Lines 140-147: activity_variability.  On an ndarray the comparison      *)
(* observation_days == 1 is elementwise.  On a tuple it is the Python bool *)
(* False, and np.where(False) depends on the numpy release: up to 2.0 it   *)
(* returns no index (with a DeprecationWarning), from 2.1 on it raises     *)
(* ValueError ("Calling nonzero on 0d arrays is not allowed").             *)
(***************************************************************************)
\* The indices of the active days, ascending.
ActiveIndices(obs) ==
  LET on == {i \in 0..(Len(obs) - 1) : At(obs, i) = 1}
  IN  [k \in 1..Cardinality(on) |->
         CHOOSE i \in on : Cardinality({j \in on : j < i}) = k - 1]

WhereActive(obs, isArray) ==
  IF isArray
  THEN {[raised |-> FALSE, idx |-> ActiveIndices(obs)]}
  ELSE {[raised |-> FALSE, idx |-> <<>>], [raised |-> TRUE, idx |-> <<>>]}

Diff(idx) == [k \in 1..(Len(idx) - 1) |-> idx[k + 1] - idx[k]]

RECURSIVE ISqrtIn(_, _, _)
ISqrtIn(x, lo, hi) ==
  IF lo >= hi THEN lo
  ELSE LET mid == (lo + hi + 1) \div 2
       IN  IF mid * mid <= x THEN ISqrtIn(x, mid, hi)
           ELSE ISqrtIn(x, lo, mid - 1)

ISqrt(x) == ISqrtIn(x, 0, Min(x, 46340))

\* np.std(gaps) = sqrt(n*sum(g^2) - sum(g)^2) / n, kept to two decimals of
\* the square root.
StdDev(gaps) ==
  LET n == Len(gaps)
  IN  <<ISqrt((n * SumSq(gaps) - SumSeq(gaps) * SumSeq(gaps)) * 10000),
        100 * n>>

Variability(idx) == IF Len(idx) > 1 THEN StdDev(Diff(idx)) ELSE Zero

(***************************************************************************)
(* Lines 149-157: inactivity_growth_rate, the mean of duration[i] /        *)
(* duration[i-1] over the non-ongoing episodes, 1 below two episodes.      *)
(***************************************************************************)
RatAdd(a, b) == <<a[1] * b[2] + b[1] * a[2], a[2] * b[2]>>

RECURSIVE SumRatios(_, _)
SumRatios(eps, i) ==
  IF i > Len(eps) THEN Zero
  ELSE RatAdd(IF eps[i - 1][2] > 0 THEN <<eps[i][2], eps[i - 1][2]>>
              ELSE <<1, 1>>,
              SumRatios(eps, i + 1))

GrowthRate(eps) ==
  IF Len(eps) > 1
  THEN LET s == SumRatios(eps, 2) IN <<s[1], s[2] * (Len(eps) - 1)>>
  ELSE <<1, 1>>

(***************************************************************************)
(* Lines 159-163: recent_activity_density over the last 30 days.           *)
(***************************************************************************)
RecentWindow == 30

RecentDensity(obs) ==
  LET w == Min(RecentWindow, Len(obs))
  IN  <<SumSeq(SubSeq(obs, Len(obs) - w + 1, Len(obs))), w>>

\* Lines 165-177.
Features(obs, ref, eps, rows, df, idx) ==
  <<ActivityRatio(obs), <<NumEpisodes(rows), 1>>, AvgRecency(rows),
    MinRecency(rows), AvgRelevance(df), MaxRelevance(df),
    PeriodicityScore(obs), Linearity(eps, obs, ref),
    Variability(idx), GrowthRate(eps), RecentDensity(obs)>>

(***************************************************************************)
(* Line 179: rfi_df.sort('R').  Insertion sort, ascending in R.            *)
(***************************************************************************)
RECURSIVE InsertByR(_, _)
InsertByR(sorted, row) ==
  IF Len(sorted) = 0 THEN <<row>>
  ELSE IF row.R < sorted[1].R THEN <<row>> \o sorted
       ELSE <<sorted[1]>> \o InsertByR(Tail(sorted), row)

RECURSIVE SortFrom(_, _, _)
SortFrom(df, k, sorted) ==
  IF k > Len(df) THEN sorted
  ELSE SortFrom(df, k + 1, InsertByR(sorted, df[k]))

\* The table left in the order of rfi_rows.
SortByRSkipped(df) == df

SortByR(df) == SortFrom(df, 1, <<>>)

(***************************************************************************)
(* Double arithmetic, for the places where the code rounds a double to an  *)
(* integer or to two decimals (round, np.average, pl.col(..).round(2)).    *)
(* A natural number of any size is a sequence of limbs below 2^12, least   *)
(* significant first, without a leading zero limb.  A non-negative double  *)
(* is [m |-> natural, e |-> integer], the number m * 2^e; a result of an   *)
(* operation is rounded to 53 significant bits, ties to even.  The         *)
(* numbers met here are far from the overflow and underflow of doubles.    *)
(***************************************************************************)
Limb == 4096

LimbBits == 12

MantissaBits == 53

BigTrim(a) ==
  LET nz == {k \in 1..Len(a) : a[k] # 0}
  IN  IF nz = {} THEN <<>>
      ELSE SubSeq(a, 1, CHOOSE k \in nz : \A j \in nz : j <= k)

\* The natural n < 2^31.
BigOf(n) ==
  BigTrim(<<n % Limb, (n \div Limb) % Limb, n \div (Limb * Limb)>>)

\* The integer of a natural below 2^31.
BigToInt(a) ==
  IF a = <<>> THEN 0
  ELSE SumFn([k \in 1..Len(a) |-> a[k] * Limb ^ (k - 1)], 1, Len(a))

BigLimb(a, k) == IF k <= Len(a) THEN a[k] ELSE 0

RECURSIVE BigAddFrom(_, _, _, _, _)
BigAddFrom(a, b, k, carry, acc) ==
  IF k > Len(a) /\ k > Len(b)
  THEN IF carry = 0 THEN acc ELSE Append(acc, carry)
  ELSE LET t == BigLimb(a, k) + BigLimb(b, k) + carry
       IN  BigAddFrom(a, b, k + 1, t \div Limb, Append(acc, t % Limb))

BigAdd(a, b) == BigAddFrom(a, b, 1, 0, <<>>)

\* a - b for a >= b.
RECURSIVE BigSubFrom(_, _, _, _, _)
BigSubFrom(a, b, k, borrow, acc) ==
  IF k > Len(a) THEN acc
  ELSE LET t == a[k] - BigLimb(b, k) - borrow
       IN  BigSubFrom(a, b, k + 1, IF t < 0 THEN 1 ELSE 0,
                      Append(acc, (t + Limb) % Limb))

BigSub(a, b) == BigTrim(BigSubFrom(a, b, 1, 0, <<>>))

\* -1, 0 or 1 as a is below, equal to or above b.
BigCmp(a, b) ==
  IF Len(a) # Len(b) THEN (IF Len(a) < Len(b) THEN -1 ELSE 1)
  ELSE LET diff == {k \in 1..Len(a) : a[k] # b[k]}
       IN  IF diff = {} THEN 0
           ELSE LET top == CHOOSE k \in diff : \A j \in diff : j <= k
                IN  IF a[top] < b[top] THEN -1 ELSE 1

\* a * c for an integer 0 <= c <= 2^18.
RECURSIVE BigMulFrom(_, _, _, _, _)
BigMulFrom(a, c, k, carry, acc) ==
  IF k > Len(a) THEN acc \o BigOf(carry)
  ELSE LET t == a[k] * c + carry
       IN  BigMulFrom(a, c, k + 1, t \div Limb, Append(acc, t % Limb))

BigMul(a, c) == BigTrim(BigMulFrom(a, c, 1, 0, <<>>))

\* <<a \div d, a % d>> for an integer 0 < d < 2^19.
RECURSIVE BigDivFrom(_, _, _, _, _)
BigDivFrom(a, d, k, rem, acc) ==
  IF k = 0 THEN <<BigTrim(acc), rem>>
  ELSE LET t == rem * Limb + a[k]
       IN  BigDivFrom(a, d, k - 1, t % d, <<t \div d>> \o acc)

BigDivSmall(a, d) == BigDivFrom(a, d, Len(a), 0, <<>>)

\* a * 2^s and a \div 2^s.
BigShiftLeft(a, s) ==
  IF a = <<>> THEN <<>>
  ELSE BigMul(Rep(0, s \div LimbBits) \o a, 2 ^ (s % LimbBits))

BigShiftRight(a, s) ==
  BigDivSmall(SubSeq(a, (s \div LimbBits) + 1, Len(a)),
              2 ^ (s % LimbBits))[1]

\* The number of bits of a.
BigBits(a) ==
  IF a = <<>> THEN 0
  ELSE LimbBits * (Len(a) - 1)
       + (CHOOSE n \in 1..LimbBits :
            2 ^ (n - 1) <= a[Len(a)] /\ a[Len(a)] < 2 ^ n)

\* The largest c in lo..hi with b * c <= rem.
RECURSIVE BigQuotientLimb(_, _, _, _)
BigQuotientLimb(rem, b, lo, hi) ==
  IF lo >= hi THEN lo
  ELSE LET mid == (lo + hi + 1) \div 2
       IN  IF BigCmp(BigMul(b, mid), rem) <= 0
           THEN BigQuotientLimb(rem, b, mid, hi)
           ELSE BigQuotientLimb(rem, b, lo, mid - 1)

\* <<a \div b, a % b>> for naturals a and b > 0, limb by limb from the top.
RECURSIVE BigDivModFrom(_, _, _, _)
BigDivModFrom(a, b, rem, acc) ==
  IF Len(acc) = Len(a) THEN <<BigTrim(acc), rem>>
  ELSE LET cur == BigTrim(<<a[Len(a) - Len(acc)]>> \o rem)
           c == BigQuotientLimb(cur, b, 0, Limb - 1)
       IN  BigDivModFrom(a, b, BigSub(cur, BigMul(b, c)), <<c>> \o acc)

BigDivMod(a, b) == BigDivModFrom(a, b, <<>>, <<>>)

FlZero == [m |-> <<>>, e |-> 0]

\* m * 2^e, plus a little below one unit of m when sticky, as a double.
FlRound(m, e, sticky) ==
  IF BigBits(m) <= MantissaBits THEN [m |-> m, e |-> e]
  ELSE LET r == BigBits(m) - MantissaBits
           q == BigShiftRight(m, r)
           low == BigSub(m, BigShiftLeft(q, r))
           c == BigCmp(BigShiftLeft(low, 1), BigShiftLeft(BigOf(1), r))
           up == c > 0 \/ (c = 0 /\ (sticky \/ BigLimb(q, 1) % 2 = 1))
       IN  [m |-> IF up THEN BigAdd(q, BigOf(1)) ELSE q, e |-> e + r]

\* The double n / d of two integers, 0 <= n < 2^31, 0 < d < 2^19.
FlOfRatio(n, d) ==
  IF n = 0 THEN FlZero
  ELSE LET r == BigDivSmall(BigShiftLeft(BigOf(n), 80), d)
       IN  FlRound(r[1], -80, r[2] # 0)

\* x * c for an integer 0 <= c <= 2^18.
FlTimes(x, c) == FlRound(BigMul(x.m, c), x.e, FALSE)

FlPlus(x, y) ==
  LET e == Min(x.e, y.e)
  IN  FlRound(BigAdd(BigShiftLeft(x.m, x.e - e), BigShiftLeft(y.m, y.e - e)),
              e, FALSE)

\* x / y for y > 0.
FlOver(x, y) ==
  IF x.m = <<>> THEN FlZero
  ELSE LET s == 56 + BigBits(y.m)
           r == BigDivMod(BigShiftLeft(x.m, s), y.m)
       IN  FlRound(r[1], x.e - y.e - s, r[2] # <<>>)

\* The nearest integer of x; a tie goes to the even one when halfEven, up
\* otherwise.
FlRoundToInt(x, halfEven) ==
  IF x.e >= 0 THEN BigToInt(BigShiftLeft(x.m, x.e))
  ELSE LET q == BigShiftRight(x.m, -x.e)
           low == BigSub(x.m, BigShiftLeft(q, -x.e))
           c == BigCmp(BigShiftLeft(low, 1), BigShiftLeft(BigOf(1), -x.e))
           up == c > 0 \/ (c = 0 /\ (~halfEven \/ BigLimb(q, 1) % 2 = 1))
       IN  BigToInt(q) + (IF up THEN 1 ELSE 0)

RECURSIVE FlSumFrom(_, _, _, _)
FlSumFrom(a, k, hi, acc) ==
  IF k > hi THEN acc ELSE FlSumFrom(a, k + 1, hi, FlPlus(acc, a[k]))

RECURSIVE FlLane(_, _, _, _, _)
FlLane(a, j, b, blocks, acc) ==
  IF b >= blocks THEN acc
  ELSE FlLane(a, j, b + 1, blocks, FlPlus(acc, a[8 * b + j]))

\* numpy's sum of up to 128 doubles: in order below eight of them, else on
\* eight running sums over the blocks of eight, added in pairs, and the
\* rest in order.
FlPairwiseSum(a) ==
  IF Len(a) < 8 THEN FlSumFrom(a, 1, Len(a), FlZero)
  ELSE LET blocks == Len(a) \div 8
           r == [j \in 1..8 |-> FlLane(a, j, 1, blocks, a[j])]
           res == FlPlus(FlPlus(FlPlus(r[1], r[2]), FlPlus(r[3], r[4])),
                         FlPlus(FlPlus(r[5], r[6]), FlPlus(r[7], r[8])))
       IN  FlSumFrom(a, 8 * blocks + 1, Len(a), res)

(***************************************************************************)
(* Lines 186-191: calculate_dormancy.  np.average(I, weights=Relevance) is *)
(* sum(I * Relevance) / sum(Relevance) on the doubles of the Relevance     *)
(* column, each the double nearest to its hundredths; round(x, 0) rounds   *)
(* ties to even.                                                           *)
(***************************************************************************)
DormancyBranch(m) ==
  IF Len(m) # 0 /\ SumCol(m, "Relevance") > 0 THEN "weighted" ELSE "zero"

Weights(m) == [k \in 1..Len(m) |-> FlOfRatio(m[k].Relevance, 100)]

\* np.average of line 187.
Average(m) ==
  LET wgt == Weights(m)
  IN  FlOver(FlPairwiseSum([k \in 1..Len(m) |-> FlTimes(wgt[k], m[k].I)]),
             FlPairwiseSum(wgt))

\* np.average raises ZeroDivisionError when the weights sum to zero.
Dormancy(m) ==
  IF DormancyBranch(m) = "weighted"
  THEN IF SumCol(m, "Relevance") = 0 THEN "ZeroDivisionError"
       ELSE FlRoundToInt(Average(m), TRUE)
  ELSE 0

(***************************************************************************)
(* get_rfi_matrix and calculate_dormancy as functions of the row, for the  *)
(* batch runners.  ScanFrom is the loop of lines 17-25 with the run of     *)
(* `i += 1` steps over active days taken at once (NextInactive).  raises   *)
(* says whether the numpy of the run raises in np.where on a tuple.        *)
(***************************************************************************)
NextInactive(obs, from) ==
  LET zeros == {j \in from..(Len(obs) - 1) : At(obs, j) = 0}
  IN  IF zeros = {} THEN Len(obs)
      ELSE CHOOSE j \in zeros : \A z \in zeros : j <= z

RECURSIVE ScanFrom(_, _, _)
ScanFrom(obs, from, eps) ==
  IF from >= Len(obs) THEN eps
  ELSE IF At(obs, from) = 0
       THEN LET j == RunEnd(obs, from)
            IN  ScanFrom(obs, j, Append(eps, <<from, j - from>>))
       ELSE ScanFrom(obs, NextInactive(obs, from), eps)

ScanAll(obs) == ScanFrom(obs, 0, <<>>)

Raised(name) ==
  [raised |-> TRUE, error |-> name, matrix |-> <<>>, features |-> <<>>]

Returned(m, f) ==
  [raised |-> FALSE, error |-> "", matrix |-> m, features |-> f]

GetRfiMatrix(act, raises) ==
  IF Len(act) = 0 THEN Raised("EmptyRowError")
  ELSE
    LET ref == ReferenceDay(act)
        obs == ObservationDays(act)
        scanned == ScanAll(obs)
        ongoing == OngoingOf(scanned, obs, ref)
        eps == PreviousOf(scanned, obs, ref)
        rows == PrepareRows(Aggregate(eps, obs, ref), ongoing)
        df == WithRelevance(rows)
        wh == CHOOSE w \in WhereActive(obs, IsNdarray(act)) :
                IsNdarray(act) \/ w.raised = raises
    IN  IF rows = <<>> THEN Returned(<<>>, EmptyFeatures(obs))
        ELSE IF wh.raised THEN Raised("ValueError")
        ELSE Returned(SortByR(df), Features(obs, ref, eps, rows, df, wh.idx))

\* Lines 182-191.
CalculateDormancyOf(act, raises) ==
  LET r == GetRfiMatrix(act, raises)
  IN  IF r.raised THEN [raised |-> TRUE, error |-> r.error, value |-> 0]
      ELSE [raised |-> FALSE, error |-> "", value |-> Dormancy(r.matrix)]

VARIABLES
  activity,          \* df.row(user_id)
  pc,                \* position in get_rfi_matrix / calculate_dormancy
  reference_day,
  observation_days,
  i,                 \* the scan index of lines 16-25
  obs_is_array,      \* observation_days is an ndarray (else a tuple)
  episodes,
  ongoing_episode,
  rfi_data,          \* dict duration -> {F, R}, in insertion order
  rfi_rows,
  rfi_df,
  features,
  rfi_matrix,        \* the table get_rfi_matrix returns
  outcome,           \* of get_rfi_matrix: "running", "returned" or an exception
  dormancy,          \* what calculate_dormancy returns
  dormancy_branch,   \* which branch of calculate_dormancy ran
  filtered_df,       \* the matrix handed to a batch runner, one row per user
  runner,            \* which batch runner runs
  numpy_raises,      \* the numpy of the run raises in np.where on a tuple
  batch_pc,          \* position in the batch runner
  observation_df,    \* the first first_period_duration columns
  user_ids,          \* what the loop iterates over
  position,          \* how many loop iterations have run
  results,           \* app.py: the list of result rows
  failed,            \* history: the user ids whose computation raised
  final_df,          \* app.py: the table shown and downloaded
  reported,          \* what the run tells its user: messages and prints
  batch_error        \* the exception that left the runner, if any

vars == <<activity, pc, reference_day, observation_days, i, obs_is_array,
          episodes, ongoing_episode, rfi_data, rfi_rows, rfi_df, features,
          rfi_matrix, outcome, dormancy, dormancy_branch,
          filtered_df, runner, numpy_raises, batch_pc, observation_df,
          user_ids, position, results, failed, final_df, reported,
          batch_error>>

batchVars == <<filtered_df, runner, numpy_raises, batch_pc, observation_df,
               user_ids, position, results, failed, final_df, reported,
               batch_error>>

callVars == <<activity, pc, reference_day, observation_days, i, obs_is_array,
              episodes, ongoing_episode, rfi_data, rfi_rows, rfi_df, features,
              rfi_matrix, outcome, dormancy, dormancy_branch>>

\* No batch runner runs.
BatchIdle ==
  /\ filtered_df = <<>>
  /\ runner = "none"
  /\ numpy_raises = FALSE
  /\ batch_pc = "idle"
  /\ observation_df = <<>>
  /\ user_ids = <<>>
  /\ position = 0
  /\ results = <<>>
  /\ failed = {}
  /\ final_df = None
  /\ reported = <<>>
  /\ batch_error = "none"

Init ==
  /\ activity \in Inputs
  /\ pc = "entry"
  /\ reference_day = None
  /\ observation_days = None
  /\ i = 0
  /\ obs_is_array = FALSE
  /\ episodes = <<>>
  /\ ongoing_episode = None
  /\ rfi_data = <<>>
  /\ rfi_rows = <<>>
  /\ rfi_df = <<>>
  /\ features = None
  /\ rfi_matrix = None
  /\ outcome = "running"
  /\ dormancy = None
  /\ dormancy_branch = "none"
  /\ BatchIdle

\* Lines 7-13.  A row without a day cannot be read: df.row raises on a frame
\* without columns, and activity[-1] raises IndexError on an empty tuple.
ReadRow ==
  /\ pc = "entry"
  /\ IF Len(activity) = 0
     THEN /\ outcome' = "EmptyRowError"
          /\ pc' = "raised"
          /\ UNCHANGED <<reference_day, observation_days, obs_is_array>>
     ELSE /\ reference_day' = ReferenceDay(activity)
          /\ observation_days' = ObservationDays(activity)
          /\ obs_is_array' = IsNdarray(activity)
          /\ pc' = "scan"
          /\ UNCHANGED outcome
  /\ UNCHANGED <<activity, i, episodes, ongoing_episode, rfi_data, rfi_rows,
                 rfi_df, features, rfi_matrix, dormancy, dormancy_branch>>
  /\ UNCHANGED batchVars

\* Lines 17-25: one iteration of the outer while loop.
ScanStep ==
  /\ pc = "scan"
  /\ i < Len(observation_days)
  /\ IF At(observation_days, i) = 0
     THEN /\ i' = RunEnd(observation_days, i)
          /\ episodes' = Append(episodes, <<i, i' - i>>)
     ELSE /\ i' = i + 1
          /\ UNCHANGED episodes
  /\ UNCHANGED <<activity, pc, reference_day, observation_days, obs_is_array,
                 ongoing_episode, rfi_data, rfi_rows, rfi_df, features,
                 rfi_matrix, outcome, dormancy, dormancy_branch>>
  /\ UNCHANGED batchVars

\* Line 17: the loop condition fails.
ScanDone ==
  /\ pc = "scan"
  /\ i >= Len(observation_days)
  /\ pc' = "separate"
  /\ UNCHANGED <<activity, reference_day, observation_days, i, obs_is_array,
                 episodes, ongoing_episode, rfi_data, rfi_rows, rfi_df,
                 features, rfi_matrix, outcome, dormancy, dormancy_branch>>
  /\ UNCHANGED batchVars

\* Lines 28-35.
SeparateOngoing ==
  /\ pc = "separate"
  /\ ongoing_episode' = OngoingOf(episodes, observation_days, reference_day)
  /\ episodes' = PreviousOf(episodes, observation_days, reference_day)
  /\ pc' = "aggregate"
  /\ UNCHANGED <<activity, reference_day, observation_days, i, obs_is_array,
                 rfi_data, rfi_rows, rfi_df, features, rfi_matrix, outcome,
                 dormancy, dormancy_branch>>
  /\ UNCHANGED batchVars

\* Lines 37-48.
AggregateEpisodes ==
  /\ pc = "aggregate"
  /\ rfi_data' = Aggregate(episodes, observation_days, reference_day)
  /\ pc' = "rows"
  /\ UNCHANGED <<activity, reference_day, observation_days, i, obs_is_array,
                 episodes, ongoing_episode, rfi_rows, rfi_df, features,
                 rfi_matrix, outcome, dormancy, dormancy_branch>>
  /\ UNCHANGED batchVars

\* Lines 50-60.
BuildRows ==
  /\ pc = "rows"
  /\ rfi_rows' = PrepareRows(rfi_data, ongoing_episode)
  /\ pc' = "branch"
  /\ UNCHANGED <<activity, reference_day, observation_days, i, obs_is_array,
                 episodes, ongoing_episode, rfi_data, rfi_df, features,
                 rfi_matrix, outcome, dormancy, dormancy_branch>>
  /\ UNCHANGED batchVars

\* Lines 64-83: no inactivity episode, the empty typed table is returned.
ReturnEmpty ==
  /\ pc = "branch"
  /\ rfi_rows = <<>>
  /\ features' = EmptyFeatures(observation_days)
  /\ rfi_matrix' = <<>>
  /\ outcome' = "returned"
  /\ pc' = "returned"
  /\ UNCHANGED <<activity, reference_day, observation_days, i, obs_is_array,
                 episodes, ongoing_episode, rfi_data, rfi_rows, rfi_df,
                 dormancy, dormancy_branch>>
  /\ UNCHANGED batchVars

\* Lines 95-104.
ScoreRelevance ==
  /\ pc = "branch"
  /\ rfi_rows # <<>>
  /\ rfi_df' = WithRelevance(rfi_rows)
  /\ pc' = "features"
  /\ UNCHANGED <<activity, reference_day, observation_days, i, obs_is_array,
                 episodes, ongoing_episode, rfi_data, rfi_rows, features,
                 rfi_matrix, outcome, dormancy, dormancy_branch>>
  /\ UNCHANGED batchVars

\* Lines 109-177.  Every feature before np.where is computed without an
\* exception; np.where on the tuple window may raise.
ComputeFeatures ==
  /\ pc = "features"
  /\ \E wh \in WhereActive(observation_days, obs_is_array) :
       IF wh.raised
       THEN /\ outcome' = "ValueError"
            /\ pc' = "raised"
            /\ UNCHANGED features
       ELSE /\ features' = Features(observation_days, reference_day, episodes,
                                    rfi_rows, rfi_df, wh.idx)
            /\ pc' = "sort"
            /\ UNCHANGED outcome
  /\ UNCHANGED <<activity, reference_day, observation_days, i, obs_is_array,
                 episodes, ongoing_episode, rfi_data, rfi_rows, rfi_df,
                 rfi_matrix, dormancy, dormancy_branch>>
  /\ UNCHANGED batchVars

\* Line 179.
ReturnSorted ==
  /\ pc = "sort"
  /\ rfi_matrix' = SortByR(rfi_df)
  /\ outcome' = "returned"
  /\ pc' = "returned"
  /\ UNCHANGED <<activity, reference_day, observation_days, i, obs_is_array,
                 episodes, ongoing_episode, rfi_data, rfi_rows, rfi_df,
                 features, dormancy, dormancy_branch>>
  /\ UNCHANGED batchVars

\* Lines 182-191, after get_rfi_matrix has returned.
CalculateDormancy ==
  /\ pc = "returned"
  /\ dormancy_branch' = DormancyBranch(rfi_matrix)
  /\ dormancy' = Dormancy(rfi_matrix)
  /\ pc' = "done"
  /\ UNCHANGED <<activity, reference_day, observation_days, i, obs_is_array,
                 episodes, ongoing_episode, rfi_data, rfi_rows, rfi_df,
                 features, rfi_matrix, outcome>>
  /\ UNCHANGED batchVars

\* Line 184 when get_rfi_matrix raised: the exception leaves
\* calculate_dormancy too.
DormancyRaises ==
  /\ pc = "raised"
  /\ dormancy_branch' = "raised"
  /\ pc' = "done"
  /\ UNCHANGED <<activity, reference_day, observation_days, i, obs_is_array,
                 episodes, ongoing_episode, rfi_data, rfi_rows, rfi_df,
                 features, rfi_matrix, outcome, dormancy>>
  /\ UNCHANGED batchVars

Next ==
  \/ ReadRow
  \/ ScanStep
  \/ ScanDone
  \/ SeparateOngoing
  \/ AggregateEpisodes
  \/ BuildRows
  \/ ReturnEmpty
  \/ ScoreRelevance
  \/ ComputeFeatures
  \/ ReturnSorted
  \/ CalculateDormancy
  \/ DormancyRaises

Spec == Init /\ [][Next]_vars

(***************************************************************************)
(* The batch runners: render_process_all_users (app.py:70-148) and         *)
(* process_all_users (rfi_analysis.py:193-279).  A matrix is a sequence of *)
(* rows of one width, with at least one user and one day.  The narrow      *)
(* matrices have up to MaxWidth days; the wide ones have more days than    *)
(* first_period_duration, so that the observation sub-window is a proper   *)
(* part of the row.                                                        *)
(***************************************************************************)
FirstPeriodDuration == 180

SecondPeriodDuration == 187

Runners == {"render_process_all_users", "process_all_users"}

WideRows(w) ==
  {Rep(1, FirstPeriodDuration - 1) \o tail :
     tail \in BinSeqs(w - FirstPeriodDuration + 1,
                      w - FirstPeriodDuration + 1)}

RowsOfWidth(w) == IF w < FirstPeriodDuration THEN BinSeqs(w, w) ELSE WideRows(w)

Widths ==
  (1..MaxWidth) \cup (FirstPeriodDuration..(FirstPeriodDuration + MaxTail - 1))

Matrices ==
  UNION {[1..n -> RowsOfWidth(w)] : n \in 1..MaxUsers, w \in Widths}

\* df.select(df.columns[:first_period_duration]), row by row.
FirstColumns(df, n) ==
  [u \in 1..Len(df) |-> SubSeq(df[u], 1, Min(n, Len(df[u])))]

\* df.select(df.columns[-second_period_duration:]), row by row.
LastColumns(df, n) ==
  [u \in 1..Len(df) |->
     SubSeq(df[u], Len(df[u]) - Min(n, Len(df[u])) + 1, Len(df[u]))]

\* df.get_column(df.columns[0]).to_list()
FirstColumn(df) == [u \in 1..Len(df) |-> df[u][1]]

\* app.py:116-121.
DefaultRow(uid) ==
  [user_id |-> uid, activity_ratio |-> Zero, inactivity_linearity |-> Zero,
   dormancy |-> 0, raised |-> TRUE]

\* app.py:99-121, one pass of the try statement over the table obs_df.  The
\* field raised is history: the dict of the code has no trace of the
\* exception.
RenderRow(obs_df, uid, raises) ==
  LET got == GetRfiMatrix(obs_df[uid + 1], raises)
      dorm == CalculateDormancyOf(obs_df[uid + 1], raises)
  IN  IF got.raised \/ dorm.raised THEN DefaultRow(uid)
      ELSE [user_id |-> uid, activity_ratio |-> got.features[1],
            inactivity_linearity |-> got.features[8],
            dormancy |-> dorm.value, raised |-> FALSE]

\* The dict appended to results.
Stored(r) ==
  [user_id |-> r.user_id, activity_ratio |-> r.activity_ratio,
   inactivity_linearity |-> r.inactivity_linearity, dormancy |-> r.dormancy]

\* pl.col(col).round(2) of app.py:136 on the double x[1] / x[2], in
\* hundredths: polars multiplies the double by 100 and rounds the product
\* to an integer, a tie to the even integer or away from zero as the polars
\* of the run does (halfEven).
Round2(x, halfEven) ==
  <<FlRoundToInt(FlTimes(FlOfRatio(x[1], x[2]), 100), halfEven), 100>>

\* The same on inactivity_linearity, whose double comes out of
\* stats.linregress (np.cov, a square root and a square): it is within a few
\* units in the last place of x[1] / x[2], on a side that depends on the
\* linear-algebra library of the build.  Where x[1] / x[2] lies half-way
\* between two hundredths either of them can come out.
Round2Linearity(x) ==
  LET q == (100 * x[1]) \div x[2]
      r == (100 * x[1]) % x[2]
  IN  IF 2 * r = x[2] THEN {<<q, 100>>, <<q + 1, 100>>}
      ELSE IF 2 * r > x[2] THEN {<<q + 1, 100>>}
      ELSE {<<q, 100>>}

RoundedRows(r, halfEven) ==
  {[user_id |-> r.user_id,
    activity_ratio |-> Round2(r.activity_ratio, halfEven),
    inactivity_linearity |-> lin,
    dormancy |-> r.dormancy] : lin \in Round2Linearity(r.inactivity_linearity)}

\* The tables final_df can be after line 136.
RoundedTables(res, halfEven) ==
  LET rows == [k \in 1..Len(res) |-> RoundedRows(res[k], halfEven)]
  IN  {t \in [1..Len(res) -> UNION {rows[k] : k \in 1..Len(res)}] :
         \A k \in 1..Len(res) : t[k] \in rows[k]}

\* app.py:132, without the elapsed time.
SuccessMessage(n) == [kind |-> "success", users_processed |-> n]

\* rfi_analysis.py:203-204.
ShapeMessage(name, df) ==
  [kind |-> "print", period |-> name, rows |-> Len(df),
   columns |-> Len(df[1])]

BatchInit ==
  /\ filtered_df \in Matrices
  /\ runner \in Runners
  /\ numpy_raises \in BOOLEAN
  /\ batch_pc = "entry"
  /\ observation_df = <<>>
  /\ user_ids = <<>>
  /\ position = 0
  /\ results = <<>>
  /\ failed = {}
  /\ final_df = None
  /\ reported = <<>>
  /\ batch_error = "none"
  /\ activity = <<>>
  /\ pc = "idle"
  /\ reference_day = None
  /\ observation_days = None
  /\ i = 0
  /\ obs_is_array = FALSE
  /\ episodes = <<>>
  /\ ongoing_episode = None
  /\ rfi_data = <<>>
  /\ rfi_rows = <<>>
  /\ rfi_df = <<>>
  /\ features = None
  /\ rfi_matrix = None
  /\ outcome = "running"
  /\ dormancy = None
  /\ dormancy_branch = "none"

\* app.py:74-87.
RenderStart ==
  /\ batch_pc = "entry"
  /\ runner = "render_process_all_users"
  /\ observation_df' = FirstColumns(filtered_df, FirstPeriodDuration)
  /\ user_ids' = [k \in 1..Len(filtered_df) |-> k - 1]
  /\ batch_pc' = "loop"
  /\ UNCHANGED <<filtered_df, runner, numpy_raises, position, results, failed,
                 final_df, reported, batch_error>>
  /\ UNCHANGED callVars

\* app.py:89-121, one iteration.
RenderUser ==
  /\ batch_pc = "loop"
  /\ runner = "render_process_all_users"
  /\ position < Len(user_ids)
  /\ \E row \in {RenderRow(observation_df, user_ids[position + 1],
                             numpy_raises)} :
       /\ results' = Append(results, Stored(row))
       /\ failed' = IF row.raised THEN failed \cup {row.user_id} ELSE failed
  /\ position' = position + 1
  /\ UNCHANGED <<filtered_df, runner, numpy_raises, batch_pc, observation_df,
                 user_ids, final_df, reported, batch_error>>
  /\ UNCHANGED callVars

\* app.py:123-148.
RenderFinish ==
  /\ batch_pc = "loop"
  /\ runner = "render_process_all_users"
  /\ position = Len(user_ids)
  /\ reported' = Append(reported, SuccessMessage(Len(filtered_df)))
  /\ \E halfEven \in BOOLEAN : final_df' \in RoundedTables(results, halfEven)
  /\ batch_pc' = "completed"
  /\ UNCHANGED <<filtered_df, runner, numpy_raises, observation_df, user_ids,
                 position, results, failed, batch_error>>
  /\ UNCHANGED callVars

\* rfi_analysis.py:195-223.
ProcessStart ==
  /\ batch_pc = "entry"
  /\ runner = "process_all_users"
  /\ observation_df' = FirstColumns(filtered_df, FirstPeriodDuration)
  /\ reported' = <<ShapeMessage("First Period", observation_df'),
                   ShapeMessage("Second Period",
                                LastColumns(filtered_df,
                                            SecondPeriodDuration))>>
  /\ user_ids' = FirstColumn(filtered_df)
  /\ batch_pc' = "loop"
  /\ UNCHANGED <<filtered_df, runner, numpy_raises, position, results, failed,
                 final_df, batch_error>>
  /\ UNCHANGED callVars

\* rfi_analysis.py:225-227, the first iteration: calculate_dormancy takes two
\* parameters and is called with three, so the call raises TypeError before
\* anything is computed, and nothing around the loop catches it.
ProcessUser ==
  /\ batch_pc = "loop"
  /\ runner = "process_all_users"
  /\ position < Len(user_ids)
  /\ failed' = failed \cup {user_ids[position + 1]}
  /\ batch_error' = "TypeError"
  /\ batch_pc' = "aborted"
  /\ UNCHANGED <<filtered_df, runner, numpy_raises, observation_df, user_ids,
                 position, results, final_df, reported>>
  /\ UNCHANGED callVars

BatchNext ==
  \/ RenderStart
  \/ RenderUser
  \/ RenderFinish
  \/ ProcessStart
  \/ ProcessUser

BatchSpec == BatchInit /\ [][BatchNext]_vars
(***************************************************************************)
(* Properties.                                                             *)
(***************************************************************************)
AfterScan == Len(activity) >= 1 /\ pc \notin {"entry", "scan"}

AfterSeparate == AfterScan /\ pc # "separate"

AfterAggregate == AfterSeparate /\ pc # "aggregate"

AfterRows == AfterAggregate /\ pc # "rows"

AllEpisodes ==
  IF ongoing_episode = None THEN episodes
  ELSE Append(episodes, ongoing_episode)

IsZeroVal(x) == x[1] = 0 /\ x[2] # 0

IsOneVal(x) == x[1] = x[2] /\ x[2] # 0

\* The maximal runs of zeros of a window, as <<start, duration>> pairs.
MaximalZeroRuns(obs) ==
  LET n == Len(obs)
  IN  {sd \in (0..(n - 1)) \X (1..n) :
         /\ sd[1] + sd[2] <= n
         /\ \A t \in sd[1]..(sd[1] + sd[2] - 1) : At(obs, t) = 0
         /\ (sd[1] = 0 \/ At(obs, sd[1] - 1) = 1)
         /\ (sd[1] + sd[2] = n \/ At(obs, sd[1] + sd[2]) = 1)}

SumDurations(eps) == SumSeq([k \in 1..Len(eps) |-> eps[k][2]])

\* C1: for every sequence of length >= 1 the scanned episodes (ordinary plus
\* ongoing) are exactly the maximal runs of zeros of the (possibly extended)
\* window: ordered by start, disjoint, separated by at least one active day,
\* and their durations plus the active days add up to the window length.
C1_EpisodesAreMaximalRuns ==
  AfterScan =>
    /\ {AllEpisodes[k] : k \in 1..Len(AllEpisodes)}
         = MaximalZeroRuns(observation_days)
    /\ Len(AllEpisodes) = Cardinality(MaximalZeroRuns(observation_days))
    /\ \A k \in 1..(Len(AllEpisodes) - 1) :
         /\ AllEpisodes[k][1] + AllEpisodes[k][2] < AllEpisodes[k + 1][1]
         /\ At(observation_days, AllEpisodes[k][1] + AllEpisodes[k][2]) = 1
    /\ SumDurations(AllEpisodes) + SumSeq(observation_days)
         = Len(observation_days)

C1_Witness ==
  /\ pc = "done"
  /\ Len(episodes) >= 2
  /\ ongoing_episode # None
  /\ \E k \in 1..Len(episodes) : episodes[k][2] >= 2

\* C2: the separation step makes the last scanned episode the ongoing one,
\* and drops it from the list, exactly when the last element of the sequence
\* is 0 and that episode ends at the last index of the window; otherwise
\* nothing is removed and there is no ongoing episode.  Only the last
\* episode can go.
C2_Reclassify ==
  [][pc = "separate" =>
       LET n == Len(episodes)
           reaches ==
             /\ n >= 1
             /\ activity[Len(activity)] = 0
             /\ episodes[n][1] + episodes[n][2] - 1
                  = Len(observation_days) - 1
       IN  /\ reaches => /\ ongoing_episode' = episodes[n]
                         /\ episodes' = SubSeq(episodes, 1, n - 1)
           /\ ~reaches => /\ ongoing_episode' = None
                          /\ episodes' = episodes]_vars

C2_Witness ==
  /\ pc = "aggregate"
  /\ ongoing_episode # None
  /\ Len(episodes) >= 2

\* C3: the rows built from the non-ongoing episodes hold one row per
\* distinct duration I, with F the number of non-ongoing episodes of that
\* duration and R the minimum over them of
\* len(window) - (start + duration - 1) - (1 if reference == 0 else 0).
C3_RowsPerDuration ==
  AfterAggregate =>
    LET eps == {episodes[k] : k \in 1..Len(episodes)}
        refIsZero == activity[Len(activity)] = 0
        rec(e) == Len(observation_days) - (e[1] + e[2] - 1)
                    - (IF refIsZero THEN 1 ELSE 0)
        group(d) == {e \in eps : e[2] = d}
    IN  /\ {rfi_data[k].I : k \in 1..Len(rfi_data)} = {e[2] : e \in eps}
        /\ Len(rfi_data) = Cardinality({e[2] : e \in eps})
        /\ \A k \in 1..Len(rfi_data) :
             /\ rfi_data[k].F = Cardinality(group(rfi_data[k].I))
             /\ \E e \in group(rfi_data[k].I) : rfi_data[k].R = rec(e)
             /\ \A e \in group(rfi_data[k].I) : rfi_data[k].R <= rec(e)
        /\ pc # "rows" =>
             /\ Len(rfi_rows) >= Len(rfi_data)
             /\ SubSeq(rfi_rows, 1, Len(rfi_data)) = rfi_data

C3_Witness ==
  /\ pc = "done"
  /\ Len(rfi_data) >= 2
  /\ \E k \in 1..Len(rfi_data) : rfi_data[k].F >= 2

\* C4: when there is an ongoing episode the table has exactly one more row,
\* I = its duration, F = 1, R = 0, and that row is kept apart from the row
\* of the non-ongoing episodes of the same duration.
C4_OngoingRow ==
  (AfterRows /\ ongoing_episode # None) =>
    LET own == [I |-> ongoing_episode[2], F |-> 1, R |-> 0]
    IN  /\ Len(rfi_rows) = Len(rfi_data) + 1
        /\ rfi_rows[Len(rfi_rows)] = own
        /\ Cardinality({k \in 1..Len(rfi_rows) : rfi_rows[k].R = 0}) = 1
        /\ \A k \in 1..Len(rfi_data) : rfi_rows[k] = rfi_data[k]
        /\ outcome = "returned" =>
             /\ Len(rfi_matrix) = Len(rfi_data) + 1
             /\ Cardinality({k \in 1..Len(rfi_matrix) :
                               /\ rfi_matrix[k].R = 0
                               /\ rfi_matrix[k].F = 1
                               /\ rfi_matrix[k].I = ongoing_episode[2]}) = 1

C4_Witness ==
  /\ pc = "done"
  /\ outcome = "returned"
  /\ ongoing_episode # None
  /\ \E k \in 1..Len(episodes) : episodes[k][2] = ongoing_episode[2]

\* C5: in every returned table a row with R = 0 or R >= 90 has Relevance 0.
C5_CutoffRelevance ==
  outcome = "returned" =>
    \A k \in 1..Len(rfi_matrix) :
      (rfi_matrix[k].R = 0 \/ rfi_matrix[k].R >= 90)
        => rfi_matrix[k].Relevance = 0

C5_Witness ==
  /\ outcome = "returned"
  /\ \E k \in 1..Len(rfi_matrix) : rfi_matrix[k].R = 0
  /\ \E k \in 1..Len(rfi_matrix) : rfi_matrix[k].R >= 90
  /\ \E k \in 1..Len(rfi_matrix) : rfi_matrix[k].Relevance > 0

NoInactivity == \A t \in 0..(Len(observation_days) - 1) :
                  At(observation_days, t) = 1

OnlyOngoingGap == Len(episodes) = 0 /\ ongoing_episode # None

AllRecenciesOld ==
  \A k \in 1..Len(episodes) :
    Recency(episodes[k], observation_days, reference_day) >= 90

\* C6: calculate_dormancy returns 0 for a user with no inactivity episode,
\* with a single ongoing gap only, or whose non-ongoing episodes all have
\* recency >= 90; the weighted average is taken only when the table is
\* non-empty and the relevances sum to more than 0.
C6_DormancyZeroCases ==
  (pc = "done" /\ Len(activity) >= 1) =>
    /\ (NoInactivity \/ OnlyOngoingGap \/ AllRecenciesOld)
         => (dormancy_branch = "zero" /\ dormancy = 0)
    /\ dormancy_branch = "weighted"
         => (Len(rfi_matrix) > 0 /\ SumCol(rfi_matrix, "Relevance") > 0)

\* C7: when the table is empty the call returns the empty table and 11
\* features, the last ten all 0, the first being sum(window) / len(window)
\* (0 for the empty window).
C7_EmptyTableFeatures ==
  (AfterRows /\ pc # "branch" /\ rfi_rows = <<>>) =>
    /\ outcome = "returned"
    /\ rfi_matrix = <<>>
    /\ Len(features) = 11
    /\ \A k \in 2..11 : IsZeroVal(features[k])
    /\ IF Len(observation_days) = 0 THEN IsZeroVal(features[1])
       ELSE features[1]
              = <<Cardinality({t \in 0..(Len(observation_days) - 1) :
                                 At(observation_days, t) = 1}),
                  Len(observation_days)>>

C7_Witness ==
  /\ pc = "done"
  /\ rfi_rows = <<>>
  /\ Len(observation_days) >= 2
  /\ outcome = "returned"

AllActive == Len(activity) >= 1 /\ \A k \in 1..Len(activity) : activity[k] = 1

\* C8 as stated: an all-active sequence of any length L >= 1 gives an empty
\* table, activity_ratio = 1, every other feature 0 and dormancy 0.
C8_AllActiveRatioOne ==
  (pc = "done" /\ AllActive) =>
    /\ outcome = "returned"
    /\ rfi_matrix = <<>>
    /\ IsOneVal(features[1])
    /\ \A k \in 2..11 : IsZeroVal(features[k])
    /\ dormancy = 0

\* C8 amended: an all-active sequence of length L >= 1 gives an empty table,
\* every feature but activity_ratio 0 and dormancy 0; activity_ratio is 1
\* when L >= 2 and 0 when L = 1, where the window is empty.
C8_AllActive ==
  (pc = "done" /\ AllActive) =>
    /\ outcome = "returned"
    /\ rfi_matrix = <<>>
    /\ Len(activity) >= 2 => IsOneVal(features[1])
    /\ Len(activity) = 1 => IsZeroVal(features[1])
    /\ \A k \in 2..11 : IsZeroVal(features[k])
    /\ dormancy_branch = "zero"
    /\ dormancy = 0

C8_Witness ==
  /\ pc = "done"
  /\ AllActive
  /\ Len(activity) >= 3
  /\ dormancy = 0

\* C9: with a non-empty table, activity_variability is the standard
\* deviation of the gaps between consecutive active-day indices of the
\* window when it has at least 2 active days, whatever the reference day;
\* it is positive when two gaps differ and 0 below 2 active days.
C9_VariabilityOfGaps ==
  (AfterRows /\ rfi_rows # <<>> /\ pc \in {"sort", "returned", "done"}
     /\ outcome # "ValueError") =>
    LET idx == ActiveIndices(observation_days)
        gaps == Diff(idx)
    IN  /\ Len(idx) >= 2 => features[9] = StdDev(gaps)
        /\ (\E j, k \in 1..Len(gaps) : gaps[j] # gaps[k])
             => features[9][1] > 0
        /\ Len(idx) < 2 => IsZeroVal(features[9])

\* C10: on a zero-length sequence get_rfi_matrix and calculate_dormancy do
\* not fail; they give all-zero features, an empty table and dormancy 0.
C10_EmptySequence ==
  (pc = "done" /\ Len(activity) = 0) =>
    /\ outcome = "returned"
    /\ dormancy_branch = "zero"
    /\ rfi_matrix = <<>>
    /\ Len(features) = 11
    /\ \A k \in 1..11 : IsZeroVal(features[k])
    /\ dormancy = 0
\* C15: inactivity_growth_rate is 1 for every sequence with a non-empty
\* table and fewer than 2 non-ongoing episodes, and 0 for every sequence
\* with no inactivity at all.
C15_GrowthRateDefault ==
  (pc = "done" /\ Len(activity) >= 1) =>
    /\ (rfi_rows # <<>> /\ Len(episodes) < 2)
         => (outcome = "returned" /\ IsOneVal(features[10]))
    /\ rfi_rows = <<>>
         => (outcome = "returned" /\ IsZeroVal(features[10]))

\* C16: activity_periodicity_score is exactly 0 whenever the (possibly
\* extended) window has length <= 7, whatever its content and whether or not
\* the table is empty: the score computed at lines 111-120 is 0, and so is
\* the seventh feature of every returned tuple.
C16_ShortWindowPeriodicity ==
  (AfterRows /\ pc # "branch" /\ Len(observation_days) <= 7) =>
    /\ rfi_rows # <<>> => PeriodicityScore(observation_days) = Zero
    /\ outcome = "returned" => IsZeroVal(features[7])

C16_Witness ==
  /\ pc = "done"
  /\ outcome = "returned"
  /\ Len(observation_days) = 7
  /\ rfi_rows # <<>>
  /\ SumSeq(observation_days) >= 3

\* C17: for every sequence with a window longer than 7 days and a non-empty
\* table the maximum of the autocorrelation is non-zero, so that
\* activity_periodicity_score is a defined number between 0 and 1, also when
\* the window has no active day.
C17_PeriodicityDefined ==
  (pc = "done" /\ outcome = "returned" /\ rfi_rows # <<>>
     /\ Len(observation_days) > 7) =>
    /\ MaxAutoCorr(observation_days) # 0
    /\ features[7][2] > 0
    /\ 0 <= features[7][1]
    /\ features[7][1] <= features[7][2]

\* C18: in every returned table each row has I >= 1 and F >= 1, each row of
\* non-ongoing episodes has R >= 1, and a row with R = 0 exists exactly when
\* the reference day of the sequence is inactive, that row being the ongoing
\* one.
C18_RowRanges ==
  outcome = "returned" =>
    /\ \A k \in 1..Len(rfi_matrix) :
         /\ rfi_matrix[k].I >= 1
         /\ rfi_matrix[k].F >= 1
         /\ rfi_matrix[k].R >= 0
    /\ \A k \in 1..Len(rfi_data) : rfi_data[k].R >= 1
    /\ (\E k \in 1..Len(rfi_matrix) : rfi_matrix[k].R = 0)
         <=> activity[Len(activity)] = 0
    /\ \A k \in 1..Len(rfi_matrix) :
         rfi_matrix[k].R = 0 =>
           /\ ongoing_episode # None
           /\ rfi_matrix[k].I = ongoing_episode[2]
           /\ rfi_matrix[k].F = 1

C18_Witness ==
  /\ pc = "done"
  /\ outcome = "returned"
  /\ Len(rfi_matrix) >= 3
  /\ \E k \in 1..Len(rfi_matrix) : rfi_matrix[k].R = 0
  /\ \E k \in 1..Len(rfi_matrix) : rfi_matrix[k].F >= 2

\* C19: no two rows of a returned table have the same R, so the rows sorted
\* by R are strictly increasing in R, and the ongoing row, if any, is first.
C19_StrictOrder ==
  outcome = "returned" =>
    /\ \A j, k \in 1..Len(rfi_rows) : j # k => rfi_rows[j].R # rfi_rows[k].R
    /\ Len(rfi_matrix) = Len(rfi_rows)
    /\ \A k \in 1..(Len(rfi_matrix) - 1) :
         rfi_matrix[k].R < rfi_matrix[k + 1].R
    /\ ongoing_episode # None =>
         /\ rfi_matrix[1].R = 0
         /\ rfi_matrix[1].I = ongoing_episode[2]

C19_Witness ==
  /\ pc = "done"
  /\ outcome = "returned"
  /\ ongoing_episode # None
  /\ Len(rfi_matrix) >= 3
  /\ rfi_rows[1].R > rfi_rows[2].R

(***************************************************************************)
(* The batch runners, under BatchSpec.                                     *)
(***************************************************************************)
BatchEnded == batch_pc \in {"completed", "aborted"}

\* C11: a failure of one user's computation never aborts the batch: the
\* run completes, a user whose computation failed has the zero-valued
\* default row, and after the run there is a result for every user.
C11_FailureNeverAborts ==
  BatchEnded =>
    /\ batch_pc = "completed"
    /\ batch_error = "none"
    /\ Len(results) = Len(filtered_df)
    /\ \A u \in failed : results[u + 1] = Stored(DefaultRow(u))

\* What a run of render_process_all_users over the matrix m reports when
\* every user of m succeeds.
AllSucceed(m) ==
  \A u \in 1..Len(m) :
    ~RenderRow(FirstColumns(m, FirstPeriodDuration), u - 1, numpy_raises).raised

ReportOf(m) == <<SuccessMessage(Len(m))>>

\* C12: a run in which some user's computation failed is distinguishable,
\* by what it reports (an exception, its messages), from every run in which
\* all users succeeded.
C12_FailureReported ==
  (BatchEnded /\ failed # {}) =>
    \/ batch_error # "none"
    \/ ~\E m \in Matrices : /\ Len(m) = Len(filtered_df)
                            /\ ReportOf(m) = reported
                            /\ AllSucceed(m)

\* C13: for a matrix of N users the run iterates the user ids 0..N-1 and
\* ends with exactly one row per user, in the order of the input rows, row
\* number u keyed by the user id u.
C13_OneRowPerUser ==
  /\ batch_pc \in {"loop", "completed", "aborted"}
       => user_ids = [k \in 1..Len(filtered_df) |-> k - 1]
  /\ BatchEnded =>
       /\ batch_pc = "completed"
       /\ Len(results) = Len(filtered_df)
       /\ \A k \in 1..Len(results) : results[k].user_id = k - 1

\* C14: the values in the batch output row of a user equal, to the two
\* decimals of the output, those of a direct computation that succeeds: the
\* features of get_rfi_matrix over the user's full row, the dormancy of
\* calculate_dormancy over the first first_period_duration columns.
C14_BatchEqualsDirect ==
  batch_pc = "completed" =>
    \A u \in 1..Len(filtered_df) :
      LET direct == GetRfiMatrix(filtered_df[u], numpy_raises)
          dorm == CalculateDormancyOf(
                    SubSeq(filtered_df[u], 1,
                           Min(FirstPeriodDuration, Len(filtered_df[u]))),
                    numpy_raises)
      IN  (~direct.raised /\ ~dorm.raised) =>
            /\ final_df[u].user_id = u - 1
            /\ final_df[u].activity_ratio
                 \in {Round2(direct.features[1], halfEven) :
                        halfEven \in BOOLEAN}
            /\ final_df[u].inactivity_linearity
                 \in Round2Linearity(direct.features[8])
            /\ final_df[u].dormancy = dorm.value
====
